---- MODULE Spec2Model ----
(***************************************************************************)
(* Model of the per-guild voice session and TTS playback orchestrator of   *)
(* aibot: TTSService (src/aibot/service/tts.py) running on one asyncio     *)
(* event loop, and the tts_sessions table behind TTSSessionDAO             *)
(* (src/aibot/infrastructure/dao/tts.py).                                   *)
(*                                                                         *)
(* One action of the model is one uninterrupted run of a coroutine or of a *)
(* callback between two suspension points of the event loop.               *)
(***************************************************************************)
EXTENDS Integers, Sequences, FiniteSets, TLC

\* ---------------------------------------------------------------- bounds
NumGuilds == 2
MaxTasks == 2
MaxStops == 1
NumChannels == 2
MaxClock == 1
MaxToggles == 2
MaxWatchers == 1
MaxMembers == 2
NumWatched == 1

Guilds == 1..NumGuilds
TaskIds == 1..MaxTasks
StopIds == 1..MaxStops
Channels == 1..NumChannels
\* (text channel, voice channel) of the /join calls: channel ids are unique,
\* so a voice channel is never a text channel.
JoinArgs == {<<c, NumChannels + c>> : c \in Channels}
ToggleIds == 1..MaxToggles
WatcherIds == 1..MaxWatchers
\* The guilds whose sessions, members and voice-presence events are followed.
WatchedGuilds == 1..NumWatched
\* The voice channels; Lobby is the one whose non-bot members are counted.
VoiceChannels == {NumChannels + c : c \in Channels}
Lobby == NumChannels + 1
\* Whose voice state changed: client.user, another bot, a non-bot member.
Members == {"self", "bot", "human"}

\* Python's None, for task handles and channel ids alike.
None == 0

VARIABLES
    guild_states,   \* TTSService._guild_states: dict guild_id -> GuildPlaybackState
    tasks,          \* every asyncio.Task made by queue_message, in creation order
    voice,          \* per guild, the task whose audio guild.voice_client is
                    \* playing (None: not playing, or no connected client)
    temp_files,     \* tasks whose NamedTemporaryFile is on disk
    stops,          \* frames of the stop_guild coroutines
    raced,          \* stop_guild frames that a queue_message of their guild
                    \* ran into while they were suspended (observation only)
    event,          \* the last orchestrator step (observation only)
    rows,           \* the tts_sessions table
    clock,          \* datetime.now()
    toggles,        \* frames of the toggle_reading coroutines
    dao_event,      \* the last Session Store call (observation only)
    speakers,       \* VoiceVoxTTS.speakers: speaker name -> style -> voice id
    resolved,       \* the last _resolve_speaker_id call (observation only)
    watchers,       \* frames of the on_voice_state_update coroutines
    humans,         \* per watched guild, the non-bot members of the voice channel
                    \* Lobby (len of the `not m.bot` list of channel.members)
    watch_event,    \* the last voice-presence event (observation only)
    leaving,        \* watched guilds whose leave_command has disconnected the
                    \* voice client and has not yet ended the session
    cmd_states,     \* _guild_states of the TTSService() object that
                    \* command/voice.py builds for itself
    cmd_tasks       \* the tasks made by that object's queue_message

tts_vars == <<guild_states, tasks, voice, temp_files, stops, raced,
              event>>
dao_vars == <<rows, clock, toggles, dao_event>>
cat_vars == <<speakers, resolved>>
watch_vars == <<watchers, humans, watch_event, leaving>>
cmd_vars == <<cmd_states, cmd_tasks>>
vars == <<guild_states, tasks, voice, temp_files, stops, raced,
          event, rows, clock, toggles, dao_event, speakers, resolved,
          watchers, humans, watch_event, leaving, cmd_states, cmd_tasks>>

\* ------------------------------------------------------- orchestrator data

\* GuildPlaybackState(worker_lock=asyncio.Lock(), worker_task=None)
GuildPlaybackState == [worker_lock |-> FALSE, worker_task |-> None]

\* A task just returned by asyncio.create_task: scheduled, not yet run, with
\* the done callback of queue_message registered.
NewTask(g) ==
    [guild |-> g, phase |-> "created", must_cancel |-> FALSE,
     result |-> "none", done_cb |-> "registered"]

\* asyncio.Task.done()
done(t) == tasks[t].phase = "done"

\* Tasks of guild g that were created and have not finished.
AliveTasks(g) == {t \in 1..Len(tasks) : tasks[t].guild = g /\ ~done(t)}

\* event: op is the step; for "stop_return", task is the worker stop_guild
\* awaited (None when it awaited nothing), inflight the workers of the guild
\* that were alive when stop_guild was called, raced whether a
\* queue_message of the guild ran during its await.
\* For "synth_fail", requests are the HTTP requests the synthesis issued and
\* error is the step of it that failed.
SynthEv(op, g, t, reqs, err) ==
    [op |-> op, guild |-> g, task |-> t, inflight |-> {}, raced |-> FALSE,
     requests |-> reqs, error |-> err]
StopEv(op, g, t, fl, rc) ==
    [op |-> op, guild |-> g, task |-> t, inflight |-> fl, raced |-> rc,
     requests |-> <<>>, error |-> "none"]
Ev(op, g, t) == StopEv(op, g, t, {}, FALSE)
NoEvent == Ev("init", None, None)
\* Steps the properties below do not need to tell apart.
Quiet == Ev("step", None, None)

IdleStop == [pc |-> "idle", guild |-> None, task |-> None, inflight |-> {}]
FreeStops == {s \in StopIds : stops[s].pc = "idle"}
\* The frame a new stop_guild call gets.
NewStop == CHOOSE s \in FreeStops : \A r \in FreeStops : s <= r

\* voice_client.stop(): the player, if any, is stopped
StopSinkNever(v) == v
StopSink(v) == IF v # None THEN None ELSE v

\* dict.pop(guild_id, None)
PopStateKeep(gs, g) == gs
PopState(gs, g) == [h \in (DOMAIN gs) \ {g} |-> gs[h]]

\* _get_or_create_state: the dict after the call
GetOrCreateState(gs, g) ==
    IF g \in DOMAIN gs THEN gs
    ELSE [h \in (DOMAIN gs) \cup {g} |->
            IF h = g THEN GuildPlaybackState ELSE gs[h]]

\* `state.worker_task and not state.worker_task.done()`
WorkerBusyNoDoneCheck(st) == st.worker_task # None
WorkerBusyNever(st) == FALSE
WorkerBusyAnyGuild(st) ==
    \E h \in DOMAIN guild_states :
        /\ guild_states[h].worker_task # None
        /\ ~done(guild_states[h].worker_task)
WorkerBusy(st) == st.worker_task # None /\ ~done(st.worker_task)

\* is_running
is_running(g) ==
    IF g \notin DOMAIN guild_states \/ guild_states[g].worker_task = None
    THEN FALSE
    ELSE ~done(guild_states[g].worker_task)

DaoEv(op, g, t, v, ret, prev) ==
    [op |-> op, guild |-> g, text |-> t, voice |-> v, ret |-> ret,
     prev |-> prev]

\* --------------------------------------------------------- Speaker Catalog
\* Names and styles of the catalogs considered, and the ones asked for.
\* "normal" stands for the style key "ノーマル"; NoStyle for a style argument
\* of None, "" for the empty string.
SpeakerNames == {"A", "B"}
StyleNames == {"normal", "happy"}
VoiceIds == 1..2
NoStyle == "None"
AskedNames == SpeakerNames \cup {"C"}
AskedStyles == StyleNames \cup {"sad", "", NoStyle}

\* The dicts json.load can give for speakers.json.
StyleMaps == UNION {[T -> VoiceIds] : T \in SUBSET StyleNames}
Catalogs == UNION {[S -> StyleMaps] : S \in SUBSET SpeakerNames}

\* _resolve_speaker_id: `style or "ノーマル"`, then self.speakers[name][style_key]
\* with KeyError turned into None.
resolve_speaker_id(spk, name, style) ==
    LET style_key == IF style = NoStyle \/ style = "" THEN "normal" ELSE style
    IN  IF name \in DOMAIN spk /\ style_key \in DOMAIN spk[name]
        THEN spk[name][style_key]
        ELSE None

\* _synthesize_sync: the requests it posts and the step that raised ("none":
\* the audio is returned). query_ok and render_ok are the answers of the
\* engine: raise_for_status() raises on a failed one.
synthesize_syncAlwaysRender(spk, name, style, query_ok, render_ok) ==
    IF resolve_speaker_id(spk, name, style) = None
    THEN [requests |-> <<>>, error |-> "speaker"]
    ELSE [requests |-> <<"audio_query", "synthesis">>,
          error |-> IF ~query_ok THEN "audio_query"
                    ELSE IF ~render_ok THEN "synthesis" ELSE "none"]
synthesize_sync(spk, name, style, query_ok, render_ok) ==
    IF resolve_speaker_id(spk, name, style) = None
    THEN [requests |-> <<>>, error |-> "speaker"]
    ELSE IF ~query_ok
    THEN [requests |-> <<"audio_query">>, error |-> "audio_query"]
    ELSE IF ~render_ok
    THEN [requests |-> <<"audio_query", "synthesis">>, error |-> "synthesis"]
    ELSE [requests |-> <<"audio_query", "synthesis">>, error |-> "none"]

NotResolved == [op |-> "init", name |-> "", style |-> "", id |-> None]

\* ------------------------------------------------- voice-presence data
\* _has_left_voice_channel, on the ids of before.channel and after.channel
\* (None: no channel).
has_left_voice_channelAnyChange(before, after) == before # after
has_left_voice_channel(before, after) ==
    before # None /\ (after = None \/ after # before)

IdleWatcher == [pc |-> "idle", guild |-> None, who |-> "self",
                before |-> None, stop |-> None]
FreeWatchers == {w \in WatcherIds : watchers[w].pc = "idle"}
NewWatcher == CHOOSE w \in FreeWatchers : \A x \in FreeWatchers : w <= x

\* len([m for m in channel.members if not m.bot])
member_count(g, channel) == IF channel = Lobby THEN humans[g] ELSE 0

\* watch_event: the event of guild g the handler has returned from at once,
\* NoWatch when it has gone on with an event since.
WatchEv(op, g) == [op |-> op, guild |-> g]
NoWatch == WatchEv("none", None)

\* ------------------------------------------------------------------- Init
\* Everything but the catalog, which Init and InitCatalog choose.
InitRest ==
    /\ guild_states = [h \in {} |-> GuildPlaybackState]
    /\ tasks = <<>>
    /\ voice = [g \in Guilds |-> None]
    /\ temp_files = {}
    /\ stops = [s \in StopIds |-> IdleStop]
    /\ raced = {}
    /\ event = NoEvent
    /\ rows = {}
    /\ clock = 0
    /\ toggles = [i \in ToggleIds |->
                     [pc |-> "idle", guild |-> None, channel |-> None,
                      status |-> FALSE]]
    /\ dao_event = DaoEv("init", None, None, None, FALSE, "none")
    /\ resolved = NotResolved
    /\ watchers = [w \in WatcherIds |-> IdleWatcher]
    /\ humans = [g \in WatchedGuilds |-> 0]
    /\ watch_event = NoWatch
    /\ leaving = {}
    /\ cmd_states = [h \in {} |-> GuildPlaybackState]
    /\ cmd_tasks = {}

\* The service with the catalog {A: {normal: 1, happy: 2}}.
Init ==
    /\ InitRest
    /\ speakers = [n \in {"A"} |-> [st \in StyleNames |->
                                      IF st = "normal" THEN 1 ELSE 2]]

\* The service with any catalog.
InitCatalog ==
    /\ InitRest
    /\ speakers \in Catalogs

\* ------------------------------------------------------------ queue_message
\* The whole coroutine: no await inside suspends it (startup has none, the
\* lock is never held across a suspension, so acquiring it never waits).
queue_message(g) ==
    LET gs1 == GetOrCreateState(guild_states, g)
        st == gs1[g]
        t == Len(tasks) + 1
    IN  /\ ~st.worker_lock
        /\ IF WorkerBusy(st)
           THEN /\ guild_states' = gs1
                /\ tasks' = tasks
                /\ event' = Ev("queue_dropped", g, st.worker_task)
           ELSE /\ Len(tasks) < MaxTasks
                /\ tasks' = Append(tasks, NewTask(g))
                /\ guild_states' = [gs1 EXCEPT ![g].worker_task = t]
                /\ event' = Quiet
        /\ raced' = raced \cup {s \in StopIds : stops[s].pc = "await"
                                                /\ stops[s].guild = g}
        /\ UNCHANGED <<voice, temp_files, stops>>
        /\ UNCHANGED <<dao_vars, cat_vars, cmd_vars, watch_vars>>

\* ------------------------------------------------------------------ worker
\* Final state of a task record.
Finished(rec, res) == [rec EXCEPT !.phase = "done", !.result = res]

\* A finished task whose callback ran and that nothing awaits: nobody holds
\* the Task object any more, all that is left of it is that it is done.
Released ==
    [guild |-> None, phase |-> "done", must_cancel |-> FALSE,
     result |-> "none", done_cb |-> "ran"]

\* `temp_path.unlink()` of the finally clause of _read_text
UnlinkNever(files, t) == files
Unlink(files, t) == files \ {t}

\* stop_guild frames suspended in `await task` on task t.
Awaiters(t) == {s \in StopIds : stops[s].pc = "await" /\ stops[s].task = t}

\* First step of the task: _play_once -> _read_text runs up to
\* `await self.voicevox.synthesize(...)`.
WorkerStart(t) ==
    /\ t \in 1..Len(tasks)
    /\ tasks[t].phase = "created"
    /\ ~tasks[t].must_cancel
    /\ tasks' = [tasks EXCEPT ![t].phase = "synth"]
    /\ event' = Quiet
    /\ UNCHANGED <<guild_states, voice, temp_files, stops, raced>>
    /\ UNCHANGED <<dao_vars, cat_vars, cmd_vars, watch_vars>>

\* What `await self.voicevox.synthesize(text, name, style)` can come to, over
\* the speakers and styles asked for and the answers of the engine.
SynthResults ==
    {synthesize_sync(speakers, name, style, query_ok, render_ok) :
        name \in AskedNames, style \in AskedStyles,
        query_ok \in BOOLEAN, render_ok \in BOOLEAN}

\* synthesize raised (unknown speaker, failed audio_query or failed
\* synthesis request): logged in _read_text, which returns.
SynthFail(t) ==
    /\ t \in 1..Len(tasks)
    /\ tasks[t].phase = "synth"
    /\ ~tasks[t].must_cancel
    /\ tasks' = [tasks EXCEPT ![t] = Finished(@, "ok")]
    /\ \E res \in SynthResults :
          /\ res.error # "none"
          /\ event' = SynthEv("synth_fail", tasks[t].guild, t,
                              res.requests, res.error)
    /\ UNCHANGED <<guild_states, voice, temp_files, stops, raced>>
    /\ UNCHANGED <<dao_vars, cat_vars, cmd_vars, watch_vars>>

\* synthesize returned audio: the temp file is written, then either the sink
\* is missing or disconnected (return), or play() raises because the sink is
\* already playing (caught in _play_once), or playback starts and the worker
\* waits for playback_finished. The finally clause removes the file on the
\* first three. Whether a connected voice client exists is read from the
\* platform at this moment; a client that is playing is connected.
SynthOk(t) ==
    LET g == tasks[t].guild IN
    /\ t \in 1..Len(tasks)
    /\ tasks[t].phase = "synth"
    /\ ~tasks[t].must_cancel
    /\ \E res \in SynthResults : res.error = "none"
    /\ \E connected \in {b \in BOOLEAN : voice[g] # None => b} :
          IF ~connected \/ voice[g] # None
          THEN /\ tasks' = [tasks EXCEPT ![t] = Finished(@, "ok")]
               /\ event' = Quiet
               /\ UNCHANGED <<voice, temp_files>>
          ELSE /\ tasks' = [tasks EXCEPT ![t].phase = "play"]
               /\ voice' = [voice EXCEPT ![g] = t]
               /\ temp_files' = temp_files \cup {t}
               /\ event' = Quiet
    /\ UNCHANGED <<guild_states, stops, raced>>
    /\ UNCHANGED <<dao_vars, cat_vars, cmd_vars, watch_vars>>

\* The sink called _after_playing (with or without an error), the event was
\* set and the worker woke up: finally removes the file.
PlaybackFinished(t) ==
    LET g == tasks[t].guild IN
    /\ t \in 1..Len(tasks)
    /\ tasks[t].phase = "play"
    /\ ~tasks[t].must_cancel
    /\ tasks' = [tasks EXCEPT ![t] = Finished(@, "ok")]
    /\ voice' = IF voice[g] = t THEN [voice EXCEPT ![g] = None] ELSE voice
    /\ temp_files' = Unlink(temp_files, t)
    /\ event' = Quiet
    /\ UNCHANGED <<guild_states, stops, raced>>
    /\ UNCHANGED <<dao_vars, cat_vars, cmd_vars, watch_vars>>

\* wait_for timed out: voice_client.stop(), then finally.
PlaybackTimeout(t) ==
    LET g == tasks[t].guild IN
    /\ t \in 1..Len(tasks)
    /\ tasks[t].phase = "play"
    /\ ~tasks[t].must_cancel
    /\ tasks' = [tasks EXCEPT ![t] = Finished(@, "ok")]
    /\ voice' = [voice EXCEPT ![g] = StopSink(@)]
    /\ temp_files' = Unlink(temp_files, t)
    /\ event' = Ev("timeout", g, t)
    /\ UNCHANGED <<guild_states, stops, raced>>
    /\ UNCHANGED <<dao_vars, cat_vars, cmd_vars, watch_vars>>

\* The event loop throws CancelledError into the task at its await (or before
\* its first step). `except Exception` does not catch it; finally removes the
\* file.
CancelDelivered(t) ==
    /\ t \in 1..Len(tasks)
    /\ ~done(t)
    /\ tasks[t].must_cancel
    /\ tasks' = [tasks EXCEPT ![t] = Finished(@, "cancelled")]
    /\ temp_files' = Unlink(temp_files, t)
    /\ event' = Ev(IF tasks[t].phase = "play" THEN "cancelled_playing"
                   ELSE "cancelled", tasks[t].guild, t)
    /\ UNCHANGED <<guild_states, voice, stops, raced>>
    /\ UNCHANGED <<dao_vars, cat_vars, cmd_vars, watch_vars>>

\* _on_worker_done, run by the loop after the task finished, on the service
\* object whose queue_message made the task.
ClearHandleNever(gs, g, t) == gs
ClearHandleAny(gs, g, t) ==
    IF g \in DOMAIN gs THEN [gs EXCEPT ![g].worker_task = None] ELSE gs
ClearHandleCreating(gs, g, t) ==
    IF GetOrCreateState(gs, g)[g].worker_task = t
    THEN [GetOrCreateState(gs, g) EXCEPT ![g].worker_task = None]
    ELSE GetOrCreateState(gs, g)
ClearHandle(gs, g, t) ==
    IF g \in DOMAIN gs /\ gs[g].worker_task = t
    THEN [gs EXCEPT ![g].worker_task = None]
    ELSE gs

OnWorkerDone(t) ==
    /\ t \in 1..Len(tasks)
    /\ done(t)
    /\ tasks[t].done_cb = "registered"
    /\ IF t \in cmd_tasks
       THEN /\ cmd_states' = ClearHandle(cmd_states, tasks[t].guild, t)
            /\ cmd_tasks' = cmd_tasks \ {t}
            /\ guild_states' = guild_states
       ELSE /\ guild_states' = ClearHandle(guild_states, tasks[t].guild, t)
            /\ UNCHANGED cmd_vars
    /\ tasks' = [tasks EXCEPT ![t] = IF Awaiters(t) = {}
                                      THEN Released
                                      ELSE [@ EXCEPT !.done_cb = "ran"]]
    /\ event' = Ev(IF ClearHandle(guild_states, tasks[t].guild, t)
                      # guild_states /\ t \notin cmd_tasks
                   THEN "worker_done_cleared" ELSE "worker_done",
                   tasks[t].guild, t)
    /\ UNCHANGED <<voice, temp_files, stops, raced>>
    /\ UNCHANGED <<dao_vars, cat_vars, watch_vars>>

\* --------------------------------------------------------------- stop_guild
\* From the call to the first suspension (`await task`) or, when nothing is
\* awaited, to the return. Only a call that suspends needs a frame.
stop_guild(g) ==
    /\ IF g \notin DOMAIN guild_states
       THEN /\ event' = StopEv("stop_return", g, None, AliveTasks(g), FALSE)
            /\ UNCHANGED <<guild_states, tasks, voice, stops>>
       ELSE LET st == guild_states[g]
                t == st.worker_task
            IN  /\ ~st.worker_lock
                /\ voice' = [voice EXCEPT ![g] = StopSink(@)]
                /\ IF WorkerBusy(st)
                   THEN /\ FreeStops # {}
                        /\ tasks' = [tasks EXCEPT ![t].must_cancel = TRUE]
                        /\ guild_states' =
                              [guild_states EXCEPT ![g].worker_task = None]
                        /\ stops' = [stops EXCEPT ![NewStop] =
                              [pc |-> "await", guild |-> g, task |-> t,
                               inflight |-> AliveTasks(g)]]
                        /\ event' = Quiet
                   ELSE /\ tasks' = tasks
                        /\ guild_states' =
                              PopState([guild_states EXCEPT
                                          ![g].worker_task = None], g)
                        /\ stops' = stops
                        /\ event' = StopEv("stop_return", g, None,
                                            AliveTasks(g), FALSE)
    /\ UNCHANGED <<temp_files, raced>>

\* A stop_guild call from outside the voice-presence handler.
StopGuildCall(g) ==
    /\ stop_guild(g)
    /\ UNCHANGED <<dao_vars, cat_vars, cmd_vars, watch_vars>>

\* `await task` is over: the task is done and its callbacks, registered
\* before this waiter, have run. The state is popped and stop_guild returns.
stop_guild_resume(s) ==
    /\ stops[s].pc = "await"
    /\ done(stops[s].task)
    /\ tasks[stops[s].task].done_cb = "ran"
    /\ guild_states' = PopState(guild_states, stops[s].guild)
    /\ tasks' = [tasks EXCEPT ![stops[s].task] = Released]
    /\ stops' = [stops EXCEPT ![s] = IdleStop]
    /\ raced' = raced \ {s}
    /\ event' = StopEv("stop_return", stops[s].guild, stops[s].task,
                       stops[s].inflight, s \in raced)
    /\ UNCHANGED <<voice, temp_files>>

\* The resumption of a stop_guild call made outside the voice-presence
\* handler.
StopGuildResume(s) ==
    /\ \A w \in WatcherIds : ~(watchers[w].pc = "await" /\ watchers[w].stop = s)
    /\ stop_guild_resume(s)
    /\ UNCHANGED <<dao_vars, cat_vars, cmd_vars, watch_vars>>

\* ------------------------------------------------------- the command layer
\* The queue_message of join_command, `await tts_service.queue_message(...)`
\* with the module's own `tts_service = TTSService()`: the class defines no
\* __new__, so that object is not the one get_instance() returns, and it
\* keeps its own _guild_states.
JoinAnnounce(g) ==
    LET gs1 == GetOrCreateState(cmd_states, g)
        st == gs1[g]
        t == Len(tasks) + 1
    IN  /\ ~st.worker_lock
        /\ IF WorkerBusy(st)
           THEN /\ cmd_states' = gs1
                /\ UNCHANGED <<tasks, cmd_tasks>>
                /\ event' = Ev("queue_dropped", g, st.worker_task)
           ELSE /\ Len(tasks) < MaxTasks
                /\ tasks' = Append(tasks, NewTask(g))
                /\ cmd_states' = [gs1 EXCEPT ![g].worker_task = t]
                /\ cmd_tasks' = cmd_tasks \cup {t}
                /\ event' = Ev("join_announce", g, t)
        /\ UNCHANGED <<guild_states, voice, temp_files, stops, raced>>
        /\ UNCHANGED <<dao_vars, cat_vars, watch_vars>>

\* ------------------------------------------------------------ the audio sink
\* The voice connection of guild g goes away while playing; the player stops.
VoiceDisconnect(g) ==
    /\ voice[g] # None
    /\ voice' = [voice EXCEPT ![g] = None]
    /\ event' = Quiet
    /\ UNCHANGED <<guild_states, tasks, temp_files, stops, raced>>
    /\ UNCHANGED <<dao_vars, cat_vars, cmd_vars, watch_vars>>

\* ------------------------------------------------------------ Session Store
\* One row of tts_sessions (create_table); ids are small numbers here.
Row(g, t, v, active, reading, rc, at) ==
    [guild_id |-> g, text_channel_id |-> t, voice_channel_id |-> v,
     is_active |-> active, is_reading_enabled |-> reading,
     reading_channel_id |-> rc, created_at |-> at]

RowsOf(tbl, g) == {r \in tbl : r.guild_id = g}

\* INSERT OR REPLACE on a table whose PRIMARY KEY is guild_id: the row in
\* conflict is deleted, the new one inserted.
InsertAppend(tbl, r) == tbl \cup {r}
InsertOrReplace(tbl, r) == (tbl \ RowsOf(tbl, r.guild_id)) \cup {r}

\* VALUES (?, ?, ?, 1, 0, NULL, ?)
CreatedRowKeepReading(tbl, g, t, v, at) ==
    IF \E r \in RowsOf(tbl, g) : r.is_reading_enabled
    THEN LET old == CHOOSE r \in RowsOf(tbl, g) : r.is_reading_enabled
         IN  Row(g, t, v, TRUE, TRUE, old.reading_channel_id, at)
    ELSE Row(g, t, v, TRUE, FALSE, None, at)
CreatedRow(tbl, g, t, v, at) == Row(g, t, v, TRUE, FALSE, None, at)

\* SELECT ... WHERE guild_id = ? AND is_active = 1, then fetchone(): the set
\* holding the fetched row, empty when fetchone() gives None.
SelectActiveAnyGuild(tbl, g) ==
    LET m == {r \in tbl : r.is_active}
    IN  IF m = {} THEN {} ELSE {CHOOSE r \in m : TRUE}
SelectAnyRow(tbl, g) ==
    LET m == {r \in tbl : r.guild_id = g}
    IN  IF m = {} THEN {} ELSE {CHOOSE r \in m : TRUE}
SelectActive(tbl, g) ==
    LET m == {r \in tbl : r.guild_id = g /\ r.is_active}
    IN  IF m = {} THEN {} ELSE {CHOOSE r \in m : TRUE}

\* get_active_tts_session
get_active_tts_session(tbl, g) == SelectActive(tbl, g)

\* is_reading_enabled
is_reading_enabledNoChannel(tbl, g) ==
    IF SelectActive(tbl, g) = {} THEN <<FALSE, None>>
    ELSE LET r == CHOOSE x \in SelectActive(tbl, g) : TRUE
         IN  <<r.is_reading_enabled, None>>
is_reading_enabled(tbl, g) ==
    IF SelectActive(tbl, g) = {} THEN <<FALSE, None>>
    ELSE LET r == CHOOSE x \in SelectActive(tbl, g) : TRUE
         IN  <<r.is_reading_enabled, r.reading_channel_id>>

\* UPDATE ... SET is_active = 0, is_reading_enabled = 0,
\* reading_channel_id = NULL WHERE guild_id = ?
EndedRowsKeepChannel(tbl, g) ==
    {IF r.guild_id = g
     THEN [r EXCEPT !.is_active = FALSE, !.is_reading_enabled = FALSE]
     ELSE r : r \in tbl}
EndedRows(tbl, g) ==
    {IF r.guild_id = g
     THEN [r EXCEPT !.is_active = FALSE, !.is_reading_enabled = FALSE,
                    !.reading_channel_id = None]
     ELSE r : r \in tbl}

\* The two UPDATE statements of toggle_reading, both WHERE guild_id = ? AND
\* is_active = 1.
ToggledRowsAnyRow(tbl, g, c, new_status) ==
    {IF r.guild_id = g
     THEN [r EXCEPT !.is_reading_enabled = new_status,
                    !.reading_channel_id = IF new_status THEN c ELSE None]
     ELSE r : r \in tbl}
ToggledRows(tbl, g, c, new_status) ==
    {IF r.guild_id = g /\ r.is_active
     THEN [r EXCEPT !.is_reading_enabled = new_status,
                    !.reading_channel_id = IF new_status THEN c ELSE None]
     ELSE r : r \in tbl}

\* What the store held for guild g before a call (observation only).
Prior(tbl, g) ==
    IF RowsOf(tbl, g) = {} THEN "none"
    ELSE IF \E r \in RowsOf(tbl, g) : r.is_reading_enabled THEN "reading"
    ELSE IF \E r \in RowsOf(tbl, g) : r.is_active THEN "active"
    ELSE "ended"

IdleToggle == [pc |-> "idle", guild |-> None, channel |-> None,
               status |-> FALSE]
FreeToggles == {i \in ToggleIds : toggles[i].pc = "idle"}
NewToggle == CHOOSE i \in FreeToggles : \A j \in FreeToggles : i <= j

\* create_tts_session: one INSERT OR REPLACE, committed.
create_tts_session(g, t, v) ==
    /\ rows' = InsertOrReplace(rows, CreatedRow(rows, g, t, v, clock))
    /\ dao_event' = DaoEv("create", g, t, v, FALSE, Prior(rows, g))
    /\ UNCHANGED <<clock, toggles>>
    /\ UNCHANGED <<tts_vars, cat_vars, cmd_vars, watch_vars>>

\* end_tts_session: one UPDATE, committed.
end_tts_session(g) ==
    /\ rows' = EndedRows(rows, g)
    /\ dao_event' = DaoEv("end", g, None, None, FALSE, Prior(rows, g))
    /\ UNCHANGED <<clock, toggles>>
    /\ UNCHANGED <<tts_vars, cat_vars, cmd_vars, watch_vars>>

\* toggle_reading up to the await after the SELECT: returns False when no
\* active row was fetched ("toggle_none"), otherwise goes on to the UPDATE.
\* Only a call that goes on needs a frame.
ToggleSelect(g, c) ==
    /\ IF SelectActive(rows, g) = {}
       THEN /\ toggles' = toggles
            /\ dao_event' = DaoEv("toggle_none", g, c, None, FALSE,
                                  Prior(rows, g))
       ELSE LET r == CHOOSE x \in SelectActive(rows, g) : TRUE
            IN  /\ FreeToggles # {}
                /\ toggles' = [toggles EXCEPT ![NewToggle] =
                      [pc |-> "update", guild |-> g, channel |-> c,
                       status |-> ~r.is_reading_enabled]]
                /\ dao_event' = DaoEv("toggle_select", g, c, None, FALSE,
                                      Prior(rows, g))
    /\ UNCHANGED <<rows, clock>>
    /\ UNCHANGED <<tts_vars, cat_vars, cmd_vars, watch_vars>>

\* toggle_reading from the UPDATE to the return of new_status.
ToggleUpdate(i) ==
    /\ toggles[i].pc = "update"
    /\ rows' = ToggledRows(rows, toggles[i].guild, toggles[i].channel,
                           toggles[i].status)
    /\ toggles' = [toggles EXCEPT ![i] = IdleToggle]
    /\ dao_event' = DaoEv("toggle", toggles[i].guild, toggles[i].channel,
                          None, toggles[i].status,
                          Prior(rows, toggles[i].guild))
    /\ UNCHANGED clock
    /\ UNCHANGED <<tts_vars, cat_vars, cmd_vars, watch_vars>>

\* Time passes between two calls of datetime.now().
Tick ==
    /\ clock < MaxClock
    /\ clock' = clock + 1
    /\ dao_event' = DaoEv("tick", None, None, None, FALSE, "none")
    /\ UNCHANGED <<rows, toggles>>
    /\ UNCHANGED <<tts_vars, cat_vars, cmd_vars, watch_vars>>

\* A call of _resolve_speaker_id(name, style).
ResolveSpeakerId(name, style) ==
    /\ resolved' = [op |-> "resolve", name |-> name, style |-> style,
                    id |-> resolve_speaker_id(speakers, name, style)]
    /\ UNCHANGED speakers
    /\ UNCHANGED <<tts_vars, dao_vars, cmd_vars, watch_vars>>

CatalogNext ==
    \E name \in AskedNames, style \in AskedStyles :
        ResolveSpeakerId(name, style)

StoreNext ==
    \/ \E g \in Guilds, a \in JoinArgs : create_tts_session(g, a[1], a[2])
    \/ \E g \in Guilds : end_tts_session(g)
    \/ \E g \in Guilds, c \in Channels : ToggleSelect(g, c)
    \/ \E i \in ToggleIds : ToggleUpdate(i)
    \/ Tick

\* ------------------------------------------------- on_voice_state_update
\* The non-bot members of the Lobby once the member has changed channel.
\* Only the Lobby has non-bot members here.
HumansAfter(g, who, before, after) ==
    IF who # "human" THEN humans[g]
    ELSE humans[g] - (IF before = Lobby THEN 1 ELSE 0)
                   + (IF after = Lobby THEN 1 ELSE 0)

\* /join as the watcher sees it: the session row of the guild, with the
\* Lobby as its voice channel.
JoinSession(g) ==
    /\ rows' = InsertOrReplace(rows, CreatedRow(rows, g, 1, Lobby, clock))
    /\ UNCHANGED <<clock, toggles, dao_event>>
    /\ UNCHANGED <<tts_vars, cat_vars, cmd_vars, watch_vars>>

\* The gateway delivers a voice state change of member `who` of guild g and
\* the handler runs to its first await: it returns when the member has not
\* left a channel; for client.user it goes into _stop_tts_session, where
\* voice_client.disconnect() takes the player down; for anyone else it goes
\* on to read the session.
on_voice_state_update(g, who, before, after) ==
    /\ before # None \/ after # None
    /\ who = "human" =>
          /\ before \in {None, Lobby}
          /\ after \in {None, Lobby}
          /\ before = Lobby => humans[g] > 0
          /\ (after = Lobby /\ before # Lobby) => humans[g] < MaxMembers
    /\ humans' = [humans EXCEPT ![g] = HumansAfter(g, who, before, after)]
    /\ IF ~has_left_voice_channel(before, after)
       THEN /\ watch_event' = WatchEv("ignored", g)
            /\ UNCHANGED <<watchers, tts_vars>>
       ELSE /\ FreeWatchers # {}
            /\ watch_event' = NoWatch
            /\ IF who = "self"
               THEN /\ voice' = [voice EXCEPT ![g] = None]
                    /\ watchers' = [watchers EXCEPT ![NewWatcher] =
                          [pc |-> "end", guild |-> g, who |-> who,
                           before |-> None, stop |-> None]]
               ELSE /\ voice' = voice
                    /\ watchers' = [watchers EXCEPT ![NewWatcher] =
                          [pc |-> "select", guild |-> g, who |-> who,
                           before |-> before, stop |-> None]]
            /\ UNCHANGED <<guild_states, tasks, temp_files, stops, raced,
                           event>>
    /\ UNCHANGED <<dao_vars, cat_vars, cmd_vars, leaving>>

\* _get_session_voice_channel has answered. No active session, or one in
\* another channel: return. For a non-bot member, `await
\* _get_guild_speaker_settings(guild_id)` awaits the dict a plain function
\* returned and raises TypeError: the handler ends there. For a bot, the
\* non-bot members of the channel are counted and, at zero,
\* _stop_tts_session is entered.
WatcherSelect(w) ==
    LET f == watchers[w]
        g == f.guild
        sel == get_active_tts_session(rows, g)
        channel == (CHOOSE r \in sel : TRUE).voice_channel_id
    IN  /\ f.pc = "select"
        /\ IF sel = {} \/ f.before # channel
           THEN /\ watchers' = [watchers EXCEPT ![w] = IdleWatcher]
                /\ voice' = voice
           ELSE IF f.who = "human"
           THEN /\ watchers' = [watchers EXCEPT ![w] = IdleWatcher]
                /\ voice' = voice
           ELSE IF member_count(g, channel) = 0
           THEN /\ watchers' = [watchers EXCEPT ![w] =
                      [f EXCEPT !.pc = "end", !.before = None]]
                /\ voice' = [voice EXCEPT ![g] = None]
           ELSE /\ watchers' = [watchers EXCEPT ![w] = IdleWatcher]
                /\ voice' = voice
        /\ UNCHANGED <<guild_states, tasks, temp_files, stops, raced, event>>
        /\ UNCHANGED <<humans, watch_event, leaving>>
        /\ UNCHANGED <<dao_vars, cat_vars, cmd_vars>>

\* _stop_tts_session: `await tts_session_dao.end_tts_session(...)`.
WatcherEnd(w) ==
    /\ watchers[w].pc = "end"
    /\ rows' = EndedRows(rows, watchers[w].guild)
    /\ watchers' = [watchers EXCEPT ![w].pc = "stop"]
    /\ UNCHANGED <<clock, toggles, dao_event>>
    /\ UNCHANGED <<humans, watch_event, leaving>>
    /\ UNCHANGED <<tts_vars, cat_vars, cmd_vars>>

\* _stop_tts_session: `await tts_service.stop_guild(guild_id)` up to its
\* `await task`, or to its return when it awaits nothing.
WatcherStop(w) ==
    /\ watchers[w].pc = "stop"
    /\ stop_guild(watchers[w].guild)
    /\ watchers' = [watchers EXCEPT ![w] =
          IF stops' # stops
          THEN [watchers[w] EXCEPT !.pc = "await", !.stop = NewStop]
          ELSE IdleWatcher]
    /\ UNCHANGED <<humans, watch_event, leaving>>
    /\ UNCHANGED <<dao_vars, cat_vars, cmd_vars>>

\* stop_guild resumes, pops the state and returns; the handler is over.
WatcherResume(w) ==
    /\ watchers[w].pc = "await"
    /\ stop_guild_resume(watchers[w].stop)
    /\ watchers' = [watchers EXCEPT ![w] = IdleWatcher]
    /\ UNCHANGED <<humans, watch_event, leaving>>
    /\ UNCHANGED <<dao_vars, cat_vars, cmd_vars>>

\* /leave up to the return of `await voice_client.disconnect()`'s call: with
\* no connected voice client the command only answers; otherwise the client
\* is disconnected, which takes the player down.
LeaveCommand(g) ==
    /\ g \notin leaving
    /\ \E connected \in {b \in BOOLEAN : voice[g] # None => b} :
          IF connected
          THEN /\ voice' = [voice EXCEPT ![g] = None]
               /\ leaving' = leaving \cup {g}
          ELSE UNCHANGED <<voice, leaving>>
    /\ UNCHANGED <<guild_states, tasks, temp_files, stops, raced, event>>
    /\ UNCHANGED <<watchers, humans, watch_event>>
    /\ UNCHANGED <<dao_vars, cat_vars, cmd_vars>>

\* /leave from `await tts_session_dao.end_tts_session(...)` to its answer;
\* clear_queue does nothing.
LeaveEnd(g) ==
    /\ g \in leaving
    /\ rows' = EndedRows(rows, g)
    /\ leaving' = leaving \ {g}
    /\ UNCHANGED <<clock, toggles, dao_event>>
    /\ UNCHANGED <<watchers, humans, watch_event>>
    /\ UNCHANGED <<tts_vars, cat_vars, cmd_vars>>

WatcherNext ==
    \/ \E g \in WatchedGuilds : JoinSession(g)
    \/ \E g \in WatchedGuilds, who \in Members,
          before \in VoiceChannels \cup {None},
          after \in VoiceChannels \cup {None} :
            on_voice_state_update(g, who, before, after)
    \/ \E w \in WatcherIds : WatcherSelect(w)
    \/ \E w \in WatcherIds : WatcherEnd(w)
    \/ \E w \in WatcherIds : WatcherStop(w)
    \/ \E w \in WatcherIds : WatcherResume(w)
    \/ \E g \in WatchedGuilds : LeaveCommand(g)
    \/ \E g \in WatchedGuilds : LeaveEnd(g)
    \/ \E g \in Guilds : queue_message(g)
    \/ \E t \in TaskIds : WorkerStart(t)
    \/ \E t \in TaskIds : SynthFail(t)
    \/ \E t \in TaskIds : SynthOk(t)
    \/ \E t \in TaskIds : PlaybackFinished(t)
    \/ \E t \in TaskIds : PlaybackTimeout(t)
    \/ \E t \in TaskIds : CancelDelivered(t)
    \/ \E t \in TaskIds : OnWorkerDone(t)

SpecWatcher == Init /\ [][WatcherNext]_vars

\* ---------------------------------------------------------- specification
WorkerStep(t) ==
    \/ WorkerStart(t)
    \/ SynthFail(t)
    \/ SynthOk(t)
    \/ PlaybackFinished(t)
    \/ PlaybackTimeout(t)
    \/ CancelDelivered(t)

Next ==
    \/ \E g \in Guilds : queue_message(g)
    \/ \E g \in Guilds : StopGuildCall(g)
    \/ \E s \in StopIds : StopGuildResume(s)
    \/ \E t \in TaskIds : WorkerStart(t)
    \/ \E t \in TaskIds : SynthFail(t)
    \/ \E t \in TaskIds : SynthOk(t)
    \/ \E t \in TaskIds : PlaybackFinished(t)
    \/ \E t \in TaskIds : PlaybackTimeout(t)
    \/ \E t \in TaskIds : CancelDelivered(t)
    \/ \E t \in TaskIds : OnWorkerDone(t)
    \/ \E g \in Guilds : VoiceDisconnect(g)

Spec == Init /\ [][Next]_vars

\* The event loop runs every ready task and callback; synthesize ends by its
\* HTTP timeouts, the wait for playback by its result or by wait_for.
FairSpec ==
    /\ Spec
    /\ \A t \in TaskIds : WF_vars(WorkerStep(t))
    /\ \A t \in TaskIds : WF_vars(OnWorkerDone(t))

SpecStore == Init /\ [][StoreNext]_vars

\* The callers of the orchestrator side by side: the join command on the
\* service object of command/voice.py, the message handler and the
\* voice-presence handler on TTSService.get_instance().
ServiceNext ==
    \/ \E g \in Guilds : JoinAnnounce(g)
    \/ \E g \in Guilds : queue_message(g)
    \/ \E g \in Guilds : StopGuildCall(g)
    \/ \E s \in StopIds : StopGuildResume(s)
    \/ \E t \in TaskIds : WorkerStart(t)
    \/ \E t \in TaskIds : SynthFail(t)
    \/ \E t \in TaskIds : SynthOk(t)
    \/ \E t \in TaskIds : PlaybackFinished(t)
    \/ \E t \in TaskIds : PlaybackTimeout(t)
    \/ \E t \in TaskIds : CancelDelivered(t)
    \/ \E t \in TaskIds : OnWorkerDone(t)

SpecService == Init /\ [][ServiceNext]_vars

\* The orchestrator with a sink that never calls `after`: playback_finished
\* is never set, and the wait of a playing worker ends only by wait_for's
\* timer or by cancellation.
SilentStep(t) ==
    \/ WorkerStart(t)
    \/ SynthFail(t)
    \/ SynthOk(t)
    \/ PlaybackTimeout(t)
    \/ CancelDelivered(t)

SilentNext ==
    \/ \E g \in Guilds : queue_message(g)
    \/ \E g \in Guilds : StopGuildCall(g)
    \/ \E s \in StopIds : StopGuildResume(s)
    \/ \E t \in TaskIds : WorkerStart(t)
    \/ \E t \in TaskIds : SynthFail(t)
    \/ \E t \in TaskIds : SynthOk(t)
    \/ \E t \in TaskIds : PlaybackTimeout(t)
    \/ \E t \in TaskIds : CancelDelivered(t)
    \/ \E t \in TaskIds : OnWorkerDone(t)

\* The loop runs every ready task and callback, and the 120 s timer of
\* wait_for fires.
SilentSpec ==
    /\ Init
    /\ [][SilentNext]_vars
    /\ \A t \in TaskIds : WF_vars(SilentStep(t))
    /\ \A t \in TaskIds : WF_vars(OnWorkerDone(t))

SpecCatalog == InitCatalog /\ [][CatalogNext]_vars

\* ==================================================================== claims

\* The worker recorded for guild g, None when there is no state or no handle.
Handle(g) ==
    IF g \in DOMAIN guild_states THEN guild_states[g].worker_task ELSE None

\* This step started a worker for guild g and recorded it as the handle.
StartedWorker(g) ==
    /\ Len(tasks') = Len(tasks) + 1
    /\ tasks'[Len(tasks')] = NewTask(g)
    /\ g \in DOMAIN guild_states'
    /\ guild_states'[g].worker_task = Len(tasks')

\* C1: for every guild, at most one playback worker task is alive (created and
\* not yet finished) at any time.
C1_AtMostOneWorkerAlive ==
    \A g \in Guilds : Cardinality(AliveTasks(g)) <= 1

\* C2: a queue_message for a guild whose recorded worker has not finished
\* starts no worker, leaves the handle and everything else of the
\* orchestrator as it was, and returns (the message is dropped).
C2_BusyQueueIsDropped ==
    [][\A g \in Guilds :
          (queue_message(g) /\ Handle(g) # None /\ ~done(Handle(g)))
          => /\ tasks' = tasks
             /\ guild_states' = guild_states
             /\ UNCHANGED <<voice, temp_files, stops>>
             /\ event'.op = "queue_dropped"]_vars

C2_Witness ==
    /\ event.op = "queue_dropped"
    /\ Handle(event.guild) = event.task
    /\ ~done(event.task)

\* C3: when stop_guild returns, every worker of the guild that was alive when
\* it was called has finished.
C3_StopReturnsAfterInFlightWorkerEnded ==
    event.op = "stop_return" => \A t \in event.inflight : done(t)

\* C4: when a queue_message of the guild ran while stop_guild was suspended,
\* no worker of the guild is alive at the moment stop_guild returns.
C4_RaceLeavesNoWorkerAlive ==
    (event.op = "stop_return" /\ event.raced) => AliveTasks(event.guild) = {}

\* C5: when the synthesis of the guild's recorded worker fails, the worker
\* ends without an exception, is_running is false right after, and a
\* queue_message that follows while the failed worker is still the handle
\* starts a worker.
C5_SynthFailureFreesGuild ==
    [][\A g \in Guilds :
          /\ \A t \in TaskIds :
                (SynthFail(t) /\ tasks[t].guild = g /\ Handle(g) = t)
                => /\ tasks'[t].phase = "done"
                   /\ tasks'[t].result = "ok"
                   /\ ~is_running(g)'
          /\ (/\ queue_message(g)
              /\ Handle(g) # None
              /\ done(Handle(g)))
             => StartedWorker(g)]_vars

C5_Witness ==
    /\ event.op = "synth_fail"
    /\ Handle(event.guild) = event.task
    /\ done(event.task)
    /\ ~is_running(event.guild)
    /\ ENABLED queue_message(event.guild)

\* Worker t has ended and left nothing behind in the orchestrator.
Ended(t) ==
    /\ t <= Len(tasks)
    /\ done(t)
    /\ tasks[t].done_cb = "ran"
    /\ \A g \in DOMAIN guild_states :
          guild_states[g].worker_task # t /\ ~guild_states[g].worker_lock

\* C6: every worker that was started ends and from then on is not the handle
\* of its guild, with the gate free; a guild that is running stops running
\* (time and again it is not running); and a queue_message for a guild that
\* is not running starts a worker.
C6_PlayingLeadsToIdle ==
    /\ \A t \in TaskIds : <>[](t <= Len(tasks) => Ended(t))
    /\ \A g \in Guilds : []<>(~is_running(g))
    /\ [][\A g \in Guilds :
            (queue_message(g) /\ ~is_running(g)) => StartedWorker(g)]_vars

\* A worker has ended and its callback cleared the handle of its guild (no
\* stop_guild is in progress, which is the other way to a cleared handle).
C6_Witness ==
    /\ \E t \in TaskIds : Ended(t)
    /\ FreeStops = StopIds
    /\ \E g \in DOMAIN guild_states :
          /\ guild_states[g].worker_task = None
          /\ ENABLED queue_message(g)

\* C7: stop_guild for a guild without state changes nothing; whenever
\* stop_guild returns the guild has no state; a stop_guild right after
\* another one of the same guild changes nothing.
C7_StopGuildIdempotent ==
    [][\A g \in Guilds :
          /\ (StopGuildCall(g) /\ g \notin DOMAIN guild_states)
             => UNCHANGED <<guild_states, tasks, voice, temp_files,
                            stops, raced>>
          /\ (event'.op = "stop_return" /\ event'.guild = g)
             => g \notin DOMAIN guild_states'
          /\ (StopGuildCall(g) /\ event.op = "stop_return" /\ event.guild = g)
             => UNCHANGED <<guild_states, tasks, voice, temp_files,
                            stops, raced>>]_vars

C7_Witness ==
    /\ event.op = "stop_return"
    /\ event.task # None
    /\ event.guild \notin DOMAIN guild_states

\* What the orchestrator holds for guild g: its state, its tasks, its sink.
GuildView(g) ==
    <<IF g \in DOMAIN guild_states THEN {guild_states[g]} ELSE {},
      {<<t, tasks[t]>> : t \in {u \in 1..Len(tasks) : tasks[u].guild = g}},
      voice[g],
      {s \in StopIds : stops[s].guild = g}>>

\* A step taken for guild g.
StepOf(g) ==
    \/ queue_message(g)
    \/ StopGuildCall(g)
    \/ \E s \in StopIds : stops[s].guild = g /\ StopGuildResume(s)
    \/ \E t \in 1..Len(tasks) :
          tasks[t].guild = g /\ (WorkerStep(t) \/ OnWorkerDone(t))

\* C8: what the orchestrator holds for a guild is never changed by a step
\* for another guild, and a queue_message is dropped only because of the
\* worker of its own guild and never has to wait.
C8_GuildsAreIsolated ==
    [][\A g2 \in Guilds :
          /\ GuildView(g2)' # GuildView(g2)
             => \A g1 \in Guilds \ {g2} : ~StepOf(g1)
          /\ (queue_message(g2) /\ ~is_running(g2)) => StartedWorker(g2)
          /\ (Len(tasks) < MaxTasks \/ is_running(g2))
             => ENABLED queue_message(g2)]_vars

C8_Witness ==
    \E g1 \in Guilds, g2 \in Guilds :
        g1 # g2 /\ is_running(g1) /\ is_running(g2)

\* C9: the table never holds two rows of one guild, and create_tts_session
\* leaves exactly the row it wrote for its guild.
C9_OneRowPerGuild ==
    [][/\ \A g \in Guilds : Cardinality(RowsOf(rows', g)) <= 1
       /\ \A g \in Guilds, a \in JoinArgs :
             create_tts_session(g, a[1], a[2])
             => /\ Cardinality(RowsOf(rows', g)) = 1
                /\ \A r \in RowsOf(rows', g) :
                      r.text_channel_id = a[1] /\ r.voice_channel_id = a[2]
                /\ \A h \in Guilds \ {g} : RowsOf(rows', h) = RowsOf(rows, h)
      ]_vars

C9_Witness ==
    /\ dao_event.op = "create"
    /\ dao_event.prev \in {"active", "reading"}
    /\ Cardinality(RowsOf(rows, dao_event.guild)) = 1
    /\ \A r \in RowsOf(rows, dao_event.guild) :
          r.text_channel_id = dao_event.text

\* A row without its created_at.
NoDate(r) == [r EXCEPT !.created_at = 0]

\* C10: get_active_tts_session right after create_tts_session(g, t, v) gives
\* one record, active, with t and v, reading disabled and no reading
\* channel, whatever the guild held before; a second call with the same
\* arguments gives the same record apart from created_at.
C10_CreateThenGetActive ==
    [][\A g \in Guilds, a \in JoinArgs :
          create_tts_session(g, a[1], a[2])
          => /\ {NoDate(r) : r \in get_active_tts_session(rows', g)}
                = {Row(g, a[1], a[2], TRUE, FALSE, None, 0)}
             /\ (/\ dao_event.op = "create"
                 /\ dao_event.guild = g
                 /\ dao_event.text = a[1]
                 /\ dao_event.voice = a[2])
                => {NoDate(r) : r \in get_active_tts_session(rows', g)}
                   = {NoDate(r) : r \in get_active_tts_session(rows, g)}
      ]_vars

C10_Witness ==
    /\ dao_event.op = "create"
    /\ dao_event.prev = "reading"
    /\ \E r \in get_active_tts_session(rows, dao_event.guild) :
          /\ ~r.is_reading_enabled
          /\ r.reading_channel_id = None
          /\ r.text_channel_id = dao_event.text

\* C11: get_active_tts_session(g) gives the row of g exactly when that row is
\* active; for a guild without a row or with an ended session it gives
\* nothing; it never gives a row of another guild.
C11_GetActiveIffActive ==
    \A g \in Guilds :
        LET got == get_active_tts_session(rows, g)
        IN  /\ got \subseteq rows
            /\ \A r \in got : r.guild_id = g /\ r.is_active
            /\ (got = {}) <=> ~(\E r \in rows : r.guild_id = g /\ r.is_active)
            /\ (\A r \in RowsOf(rows, g) : ~r.is_active) => got = {}

\* One guild's session is ended, another guild's is active: the first gets
\* nothing, the second its row.
C11_Witness ==
    \E g \in Guilds, h \in Guilds :
        /\ g # h
        /\ \E r \in RowsOf(rows, g) : ~r.is_active
        /\ get_active_tts_session(rows, g) = {}
        /\ \E r \in RowsOf(rows, h) : r.is_active
        /\ get_active_tts_session(rows, h) = RowsOf(rows, h)

\* C12: end_tts_session(g) leaves g's row in place with is_active false,
\* reading disabled and no reading channel, its guild, text channel, voice
\* channel and created_at as before; without a row it creates none, on an
\* ended session it changes nothing; rows of other guilds stay as they were.
C12_EndKeepsRow ==
    [][\A g \in Guilds :
          end_tts_session(g)
          => /\ Cardinality(RowsOf(rows', g)) = Cardinality(RowsOf(rows, g))
             /\ \A r \in RowsOf(rows, g) :
                   \E q \in RowsOf(rows', g) :
                      /\ q.text_channel_id = r.text_channel_id
                      /\ q.voice_channel_id = r.voice_channel_id
                      /\ q.created_at = r.created_at
             /\ \A q \in RowsOf(rows', g) :
                   /\ ~q.is_active
                   /\ ~q.is_reading_enabled
                   /\ q.reading_channel_id = None
             /\ (\A r \in RowsOf(rows, g) : ~r.is_active) => rows' = rows
             /\ \A h \in Guilds \ {g} : RowsOf(rows', h) = RowsOf(rows, h)
      ]_vars

\* A session with reading enabled was just ended and its row is still there.
C12_Witness ==
    /\ dao_event.op = "end"
    /\ dao_event.prev = "reading"
    /\ \E r \in RowsOf(rows, dao_event.guild) :
          ~r.is_active /\ r.reading_channel_id = None

\* C13: toggle_reading(g, c) for a guild without a row or with an ended
\* session returns False, goes on to no UPDATE and leaves the table as it
\* was.
C13_ToggleWithoutSession ==
    [][\A g \in Guilds, c \in Channels :
          (ToggleSelect(g, c) /\ ~(\E r \in RowsOf(rows, g) : r.is_active))
          => /\ rows' = rows
             /\ toggles' = toggles
             /\ dao_event'.op = "toggle_none"
             /\ dao_event'.ret = FALSE]_vars

\* toggle_reading just returned False for a guild whose session is ended,
\* while another guild has an active session.
C13_Witness ==
    /\ dao_event.op = "toggle_none"
    /\ dao_event.prev = "ended"
    /\ ~dao_event.ret
    /\ \E r \in rows : r.is_active

\* C14: a toggle_reading(g, c) that found the session of g active leaves
\* g's row with the reading flag flipped, with reading channel c when
\* enabled and none when disabled, changes no other field and no other row,
\* and returns the flag that is stored for g when it returns.
C14_ToggleFlips ==
    [][\A i \in ToggleIds :
          ToggleUpdate(i)
          => /\ \A r \in RowsOf(rows, toggles[i].guild) :
                   rows' = (rows \ {r}) \cup
                      {[r EXCEPT
                          !.is_reading_enabled = ~r.is_reading_enabled,
                          !.reading_channel_id =
                              IF r.is_reading_enabled THEN None
                              ELSE toggles[i].channel]}
             /\ \A q \in RowsOf(rows', toggles[i].guild) :
                   dao_event'.ret = q.is_reading_enabled
      ]_vars

\* C15: is_reading_enabled(g) gives (is_reading_enabled, reading_channel_id)
\* of g's row when that row is active and (False, None) when g has no row
\* or an ended session.
C15_IsReadingEnabled ==
    \A g \in Guilds :
        /\ \A r \in RowsOf(rows, g) :
              r.is_active
              => is_reading_enabled(rows, g)
                 = <<r.is_reading_enabled, r.reading_channel_id>>
        /\ (\A r \in RowsOf(rows, g) : ~r.is_active)
           => is_reading_enabled(rows, g) = <<FALSE, None>>

\* One guild reads on a channel, another guild's session is ended.
C15_Witness ==
    \E g \in Guilds, h \in Guilds, c \in Channels :
        /\ is_reading_enabled(rows, g) = <<TRUE, c>>
        /\ \E r \in RowsOf(rows, h) : ~r.is_active
        /\ is_reading_enabled(rows, h) = <<FALSE, None>>

\* C16: the outcome of overlapping Session Store calls is that of some
\* serial order: a toggle_reading that returns True leaves the session of
\* its guild active with reading enabled when it returns, and of two
\* overlapping toggle_reading calls of one guild the second puts the reading
\* flag back to what it was before the first.
C16_StoreCallsAtomic ==
    [][\A i \in ToggleIds :
          ToggleUpdate(i)
          => /\ dao_event'.ret
                => \E q \in RowsOf(rows', toggles[i].guild) :
                      q.is_active /\ q.is_reading_enabled
             /\ (/\ dao_event.op = "toggle"
                 /\ dao_event.guild = toggles[i].guild
                 /\ \E r \in RowsOf(rows, toggles[i].guild) :
                       r.is_active /\ r.is_reading_enabled = dao_event.ret)
                => \A q \in RowsOf(rows', toggles[i].guild) :
                      q.is_reading_enabled = ~dao_event.ret
      ]_vars

\* C17: _resolve_speaker_id(name, style) gives the voice id the catalog
\* holds under exactly these two keys and None when the catalog has no such
\* speaker or the speaker no such style; it never answers for another style.
C17_ResolveExactMatch ==
    resolved.op = "resolve"
    => resolved.id =
          IF /\ resolved.name \in DOMAIN speakers
             /\ resolved.style \in DOMAIN speakers[resolved.name]
          THEN speakers[resolved.name][resolved.style]
          ELSE None

\* C18: a voice-presence event that is not a departure (the channel is
\* unchanged, or the member joined a channel without leaving one) changes
\* nothing: the session table, the orchestrator's per-guild states, the
\* workers and the player are as before, no worker is created and the
\* handler leaves nothing pending.
C18_IgnoredEventChangesNothing ==
    [][\A g \in WatchedGuilds, who \in Members,
          before \in VoiceChannels \cup {None},
          after \in VoiceChannels \cup {None} :
            (/\ (before = after \/ before = None)
             /\ on_voice_state_update(g, who, before, after))
            => UNCHANGED <<rows, guild_states, tasks, voice, temp_files,
                           stops, watchers>>]_vars

\* A member has joined the Lobby of a guild whose session is active and
\* whose worker is running, and the handler has returned from the event.
C18_Witness ==
    \E g \in WatchedGuilds :
        /\ watch_event = WatchEv("ignored", g)
        /\ get_active_tts_session(rows, g) # {}
        /\ is_running(g)
        /\ voice[g] # None
        /\ humans[g] > 0

\* The handler frame w, working for guild g on an event of member who, ends
\* with this step.
WatcherFinishes(w, g, who) ==
    /\ watchers[w].pc \in {"stop", "await"}
    /\ watchers[w].guild = g
    /\ watchers[w].who = who
    /\ watchers'[w].pc = "idle"

\* C19: when the bot itself has left a channel, the handler ends the session
\* of the guild whatever the table and the member count are, and calls
\* stop_guild: its end_tts_session leaves the guild no active session, and
\* when the handler finishes no worker of the guild is alive.
C19_BotDepartureEndsSession ==
    [][\A w \in WatcherIds, g \in WatchedGuilds :
          /\ (WatcherEnd(w) /\ watchers[w].guild = g
                /\ watchers[w].who = "self")
             => get_active_tts_session(rows, g)' = {}
          /\ WatcherFinishes(w, g, "self") => AliveTasks(g)' = {}]_vars

\* C20: when a non-bot member has left the voice channel of the guild's
\* active session, the handler keeps the session if a non-bot member remains
\* in the channel and otherwise goes on to end it and to stop the guild, so
\* that when the handler has finished no worker of the guild is alive.
C20_LastMemberEndsSession ==
    [][\A w \in WatcherIds, g \in WatchedGuilds :
          /\ (/\ WatcherSelect(w)
              /\ watchers[w].guild = g
              /\ watchers[w].who = "human"
              /\ \E r \in get_active_tts_session(rows, g) :
                    r.voice_channel_id = watchers[w].before)
             => IF member_count(g, watchers[w].before) > 0
                THEN /\ watchers'[w].pc = "idle"
                     /\ get_active_tts_session(rows, g)' # {}
                ELSE watchers'[w].pc = "end"
          /\ (WatcherEnd(w) /\ watchers[w].guild = g
                /\ watchers[w].who = "human")
             => get_active_tts_session(rows, g)' = {}
          /\ WatcherFinishes(w, g, "human") => AliveTasks(g)' = {}]_vars

\* C21: in the departure handler the announcement is asked of queue_message
\* before the members are counted, so that once the handler has read the
\* session for a non-bot member who left its channel the guild has a running
\* worker, and with no member left the handler goes on to the teardown; the
\* teardown does not wait for that worker: its stop_guild, called while the
\* worker is running, requests the worker's cancellation.
C21_AnnouncementBeforeTeardown ==
    [][\A w \in WatcherIds, g \in WatchedGuilds :
          /\ (/\ WatcherSelect(w)
              /\ watchers[w].guild = g
              /\ watchers[w].who = "human"
              /\ \E r \in get_active_tts_session(rows, g) :
                    r.voice_channel_id = watchers[w].before)
             => /\ is_running(g)'
                /\ member_count(g, watchers[w].before) = 0
                      => watchers'[w].pc = "end"
          /\ (/\ WatcherStop(w)
              /\ watchers[w].guild = g
              /\ watchers[w].who = "human"
              /\ is_running(g))
             => tasks'[Handle(g)].must_cancel]_vars

\* C22: with a sink that never reports the end of playback, the wait of a
\* playing worker ends by the timeout: the step stops the sink, removes the
\* file and ends the worker; every worker ends and every guild is not running
\* again and again. The timeout can fire only for a worker waiting for the
\* end of playback, never for one that is synthesizing.
C22_TimeoutEndsSilentPlayback ==
    /\ [][\A t \in TaskIds :
            /\ (ENABLED PlaybackTimeout(t)) => tasks[t].phase = "play"
            /\ PlaybackTimeout(t)
               => /\ done(t)'
                  /\ voice'[tasks[t].guild] = None
                  /\ t \notin temp_files']_vars
    /\ \A t \in TaskIds : <>[](t <= Len(tasks) => Ended(t))
    /\ \A g \in Guilds : []<>(~is_running(g))

\* A worker whose sink was playing its audio has just ended by the timeout.
C22_Witness ==
    /\ event.op = "timeout"
    /\ done(event.task)
    /\ voice[event.guild] = None
    /\ event.task \notin temp_files
    /\ ~is_running(event.guild)

C24_NoRetryAfterSynthFailure ==
    [][\A t \in TaskIds :
          /\ (/\ t <= Len(tasks)
              /\ tasks[t].phase # "synth"
              /\ tasks'[t].phase = "synth")
             => tasks[t].phase = "created"
          /\ SynthFail(t)
             => /\ done(t)'
                /\ UNCHANGED <<voice, temp_files>>
                /\ Len(tasks') = Len(tasks)
                /\ event'.error = "speaker" => event'.requests = <<>>
                /\ event'.error = "audio_query"
                      => event'.requests = <<"audio_query">>
                /\ event'.error = "synthesis"
                      => event'.requests = <<"audio_query", "synthesis">>]_vars

\* A synthesis has just failed at its audio_query and the worker has ended
\* without having started the sink.
C24_Witness ==
    /\ event.op = "synth_fail"
    /\ event.error = "audio_query"
    /\ done(event.task)
    /\ voice[event.guild] = None
    /\ event.task \notin temp_files

\* The step runs the body of an `async with state.worker_lock` of guild g.
InGate(g) ==
    \/ queue_message(g)
    \/ StopGuildCall(g)

\* The step sets the handle of guild g to None and keeps the state of g.
HandleCleared(g) ==
    /\ Handle(g) # None
    /\ g \in DOMAIN guild_states'
    /\ Handle(g)' = None

\* C25 as stated: every step that sets the handle of a guild to None runs
\* inside the guild's gate; the clear on completion is one of them.
C25_ClearUnderGate ==
    [][\A g \in Guilds : HandleCleared(g) => InGate(g)]_vars

\* C25, amended: a step that sets the handle of a guild to None either runs
\* inside the guild's gate or is the completion callback of the worker the
\* handle refers to, which does not take the gate; the gate is free in every
\* state, so the callback never runs between the check and the set of a
\* queue_message or stop_guild.
C25_ClearWhileGateFree ==
    [][/\ \A g \in Guilds :
             HandleCleared(g)
             => \/ InGate(g)
                \/ /\ ~InGate(g)
                   /\ OnWorkerDone(Handle(g))
                   /\ done(Handle(g))
          /\ \A h \in DOMAIN guild_states : ~guild_states[h].worker_lock]_vars

\* The completion callback of a worker has just cleared the handle of its
\* guild.
C25_Witness ==
    /\ event.op = "worker_done_cleared"
    /\ event.guild \in DOMAIN guild_states
    /\ Handle(event.guild) = None
    /\ ~guild_states[event.guild].worker_lock

\* C26: when a teardown of the session of a guild has finished, by the leave
\* command or by the voice-presence handler (the bot's own departure, or the
\* departure that left no non-bot member), the orchestrator holds no state
\* for the guild and no worker of the guild is alive.
C26_TeardownRemovesState ==
    [][\A g \in WatchedGuilds :
          (\/ LeaveEnd(g)
           \/ \E w \in WatcherIds, who \in Members :
                 WatcherFinishes(w, g, who))
          => /\ g \notin DOMAIN guild_states'
             /\ AliveTasks(g)' = {}]_vars

\* C27: every worker that is alive is the handle recorded in the state the
\* map holds for its guild, or is the cancelled worker a suspended stop_guild
\* is waiting for; so a guild that is not running and is not being stopped
\* has no worker alive.
C27_EveryAliveWorkerIsTracked ==
    \A t \in 1..Len(tasks) :
        ~done(t) => \/ Handle(tasks[t].guild) = t
                    \/ Awaiters(t) # {}

\* The worker the join command's announcement started for guild g, alive.
JoinWorkers(g) == {t \in cmd_tasks : tasks[t].guild = g /\ ~done(t)}

\* C28: the command layer, the message handler and the voice-presence
\* handler act on one state map: while the worker started by the join
\* command's announcement is alive, a queue_message of the message handler
\* for the guild starts no worker, and a stop_guild of the voice-presence
\* handler for the guild requests the cancellation of that worker.
C28_OneOrchestratorForAllCallers ==
    [][\A g \in Guilds :
          /\ (queue_message(g) /\ JoinWorkers(g) # {}) => tasks' = tasks
          /\ (StopGuildCall(g) /\ JoinWorkers(g) # {})
             => \A t \in JoinWorkers(g) : tasks'[t].must_cancel]_vars

\* C29: in every row of the table, reading enabled implies an active session
\* and a reading channel, and reading disabled implies no reading channel.
C29_ReadingNeedsActiveSession ==
    \A r \in rows :
        /\ r.is_reading_enabled
           => r.is_active /\ r.reading_channel_id # None
        /\ ~r.is_reading_enabled => r.reading_channel_id = None

\* A toggle_reading that had read an active session with reading off has
\* just run its UPDATE after the session was ended: it returned True and
\* the ended row is untouched.
C29_Witness ==
    /\ dao_event.op = "toggle"
    /\ dao_event.ret
    /\ \E r \in RowsOf(rows, dao_event.guild) :
          ~r.is_active /\ ~r.is_reading_enabled

\* C30: the completion callback of a worker changes the state map only by
\* clearing the handle that refers to that very worker: when the handle of
\* the guild refers to a newer worker, or the guild has no state, the map is
\* left as it is, and the callback never adds a state.
C30_CallbackClearsOnlyOwnHandle ==
    [][\A t \in TaskIds :
          OnWorkerDone(t)
          => /\ Handle(tasks[t].guild) # t => guild_states' = guild_states
             /\ DOMAIN guild_states' = DOMAIN guild_states
             /\ \A g \in DOMAIN guild_states :
                   guild_states'[g] # guild_states[g]
                   => /\ g = tasks[t].guild
                      /\ guild_states[g].worker_task = t
                      /\ guild_states'[g].worker_task = None]_vars

\* The callback of a worker cancelled by stop_guild has run while a newer
\* worker, started during the await of stop_guild, is the handle of the
\* guild and alive.
C30_Witness ==
    /\ event.op = "worker_done"
    /\ tasks[event.task].result = "cancelled"
    /\ Handle(event.guild) # None
    /\ Handle(event.guild) # event.task
    /\ ~done(Handle(event.guild))

====
